---- MODULE Spec2Model ----
(***************************************************************************)
(* linkVault backend: the paste controller (createPaste, getPaste,         *)
(* downloadPaste, previewPaste, deletePaste) over the two Supabase stores  *)
(* (table "pastes", storage bucket "pastes"), and the user controller      *)
(* (registerUser) over the table "users".                                  *)
(*                                                                         *)
(* Every handler is an async function: it runs without interruption up to  *)
(* each `await` of a store call, so one action models the store call and   *)
(* the synchronous code that follows it up to the next store call.         *)
(* A store call either succeeds or returns { data: null, error }.          *)
(***************************************************************************)
EXTENDS Integers, Sequences, FiniteSets, TLC

\* ---- bounds of the model ------------------------------------------------
MaxTime     == 1    \* the clock runs from 0 to MaxTime minutes
MaxExpiry   == 1    \* largest expires_in (minutes) a client sends
MaxLimit    == 1    \* largest max_views / max_downloads a client sends
MaxCount    == 1    \* counters of unlimited pastes are followed up to here
MaxConcLimit == 2   \* largest limit of the paste overlapping handlers work on

\* The model follows one request slot and one slug: the state space is the
\* product over the slots and the square over the slugs of what is below.
Requests == {1}
\* the slots a request can be served in; the second one is used only by the
\* specifications of overlapping handlers
Handlers == {1, 2}
Slugs    == {1}

\* ---- JavaScript values --------------------------------------------------
Undefined == [t |-> "undefined"]
Null      == [t |-> "null"]
NaN       == [t |-> "NaN"]
Num(n)    == [t |-> "number", n |-> n]
\* a string that is not a decimal numeral
Str(s)    == [t |-> "string", s |-> s]
\* the string that is the decimal numeral of n
NumStr(n) == [t |-> "string", n |-> n]

\* faulty variant: every field counts as present
Truthy_always(v) == TRUE

\* JS truthiness of a request field (undefined or a string)
Truthy(v) == v # Undefined /\ v # Null /\ v # Str("")

\* Number(v) for a string: numerals parse, "" is 0, anything else is NaN
Number(v) ==
  IF "n" \in DOMAIN v THEN Num(v.n)
  ELSE IF v = Str("") \/ v = Str(" ") THEN Num(0)
  ELSE NaN

isNaN(x) == x = NaN

\* String.prototype.trim on the strings of the model
trim(v) == IF v = Str(" ") THEN Str("") ELSE v

\* bcrypt.hash(password, 10) and bcrypt.compare(password, hash)
bcrypt_hash(password) == [t |-> "hash", of |-> password]

\* faulty variant: any password opens the paste
bcrypt_compare_any(password, hash) == TRUE

bcrypt_compare(password, hash) == hash = bcrypt_hash(password)

MsPerMinute == 60 * 1000

\* ---- request inputs -----------------------------------------------------
UserIds     == {Str("u1")}
UserIdIn    == UserIds \cup {Undefined}
\* the body of POST /api/users
RegisterIdIn == {Undefined, Str("u1"), Str("u2")}
EmailIn      == {Undefined, Str("user@example.com")}
NicknameIn   == {Undefined, Str("short-name")}
\* the users a DELETE can come from: the uploader and somebody else
CallerIds   == UserIds \cup {Str("u2")}
FileIn      == {"a.pdf", "none"}
ExpiresIn   == {Undefined, Str("abc"), NumStr(0)} \cup {NumStr(n) : n \in 1 .. MaxExpiry}
BodyPasswordIn  == {Undefined, Str(" "), Str("secret")}
QueryPasswordIn == {Undefined, Str(""), Str("secret"), Str("wrong")}
LimitIn     == {Undefined, NumStr(-1)} \cup {NumStr(n) : n \in 0 .. MaxLimit}

\* ---- responses -----------------------------------------------------------
Response(status, message, file) ==
  [status |-> status, message |-> message, file |-> file]

NoResponse       == Response(0, "", FALSE)
BadRequestFields == Response(400, "user_id, file and expires_in are required", FALSE)
BadRequestExpiry == Response(400, "expires_in must be a positive number (minutes)", FALSE)
Created          == Response(201, "created", FALSE)
NotFound         == Response(404, "Not found", FALSE)
ExpiredView      == Response(410, "This doc has expired", FALSE)
ExpiredDownload  == Response(410, "Expired", FALSE)
ViewLimit        == Response(403, "Maximum view limit reached", FALSE)
DownloadLimit    == Response(403, "Maximum download limit reached", FALSE)
PasswordRequired == Response(401, "Password required", FALSE)
InvalidPassword  == Response(403, "Invalid password", FALSE)
SendFile         == Response(200, "", TRUE)
PreviewJson      == Response(200, "preview", TRUE)
PasteNotFound    == Response(404, "Paste not found", FALSE)
StorageFailed    == Response(500, "Failed to delete file from storage", FALSE)
MetadataFailed   == Response(500, "Failed to delete metadata", FALSE)
Deleted          == Response(200, "File deleted successfully", FALSE)
\* next(err): error.middleware.js logs the error and returns a 500 response
errorMiddleware  == Response(500, "error", FALSE)
BadRequestUser   == Response(400, "user_id, email and nickname are required", FALSE)
UserExists       == Response(200, "User already exists", FALSE)
UserCreated      == Response(201, "User created successfully", FALSE)

\* ---- state ---------------------------------------------------------------
VARIABLES
  pastes,     \* table "pastes": a function from the slugs present to their rows
  storage,    \* bucket "pastes": the set of storage paths that hold a blob
  now,        \* the clock, in milliseconds
  usedSlugs,  \* slugs crypto.randomUUID() has already produced
  deleted,    \* slugs for which a DELETE has answered 200
  users,      \* table "users": the rows in the order of their insertion
  req         \* the request each slot is serving, with the handler's locals
              \* (date: the clock when the handler read the row)

vars == <<pastes, storage, now, usedSlugs, deleted, users, req>>

\* `uploads/${slug}-${file.originalname}`
StoragePath(slug, originalname) == <<"uploads", slug, originalname>>

Idle ==
  [kind |-> "idle", pc |-> "idle", slug |-> 0, body |-> << >>, password |-> Undefined,
   paste |-> Null, date |-> 0, res |-> NoResponse]

Init ==
  /\ pastes = << >>
  /\ storage = {}
  /\ now = 0
  /\ usedSlugs = {}
  /\ deleted = {}
  /\ users = << >>
  /\ req = [r \in Handlers |-> Idle]

\* the handler of slot r returns res
Respond(r, fields, res) ==
  req' = [req EXCEPT ![r] = [k \in DOMAIN Idle |->
            IF k = "pc" THEN "done"
            ELSE IF k = "res" THEN res
            ELSE IF k \in DOMAIN fields THEN fields[k] ELSE req[r][k]]]

\* the handler of slot r goes on to its next store call
Goto(r, fields, pc) ==
  req' = [req EXCEPT ![r] = [k \in DOMAIN Idle |->
            IF k = "pc" THEN pc
            ELSE IF k \in DOMAIN fields THEN fields[k] ELSE req[r][k]]]

\* `.from("pastes").select("*").eq("slug", slug).single()`: data of the call
SelectSingle(slug, ok) ==
  IF ok /\ slug \in DOMAIN pastes THEN pastes[slug] ELSE Null

\* new Date(paste.expires_at) <= new Date()
IsExpired(paste) == paste.expires_at <= now

\* ---- createPaste ---------------------------------------------------------
\* lines 27-56: read the body, validate, compute expiresAt, slug, storagePath
createPaste_validate(r) ==
  /\ req[r].pc = "idle"
  /\ \E user_id \in UserIdIn, file \in FileIn, expires_in \in ExpiresIn,
        password \in BodyPasswordIn, max_views \in LimitIn, max_downloads \in LimitIn :
       LET body         == [user_id |-> user_id, file |-> file, expires_in |-> expires_in]
           maxViews     == IF max_views # Undefined THEN Number(max_views) ELSE Null
           maxDownloads == IF max_downloads # Undefined THEN Number(max_downloads) ELSE Null
           expiryMinutes == Number(expires_in)
       IN  IF ~Truthy(user_id) \/ file = "none" \/ ~Truthy(expires_in)
           THEN Respond(r, [kind |-> "create", body |-> body], BadRequestFields) /\ UNCHANGED usedSlugs
           ELSE IF isNaN(expiryMinutes) \/ expiryMinutes.n <= 0
           THEN Respond(r, [kind |-> "create", body |-> body], BadRequestExpiry) /\ UNCHANGED usedSlugs
           ELSE \E slug \in Slugs \ usedSlugs :
                  /\ usedSlugs' = usedSlugs \cup {slug}
                  /\ Goto(r, [kind |-> "create", slug |-> slug, body |-> body, password |-> password,
                              paste |-> [user_id |-> user_id,
                                         storage_path |-> StoragePath(slug, file),
                                         password_hash |-> Null,
                                         expires_at |-> now + expiryMinutes.n * MsPerMinute,
                                         max_views |-> maxViews,
                                         max_downloads |-> maxDownloads,
                                         view_count |-> 0,
                                         download_count |-> 0]],
                          "upload")
  /\ UNCHANGED <<pastes, storage, now, deleted, users>>

\* lines 58-67: upload the file (the result of the call is not looked at),
\* then hash the password if one was given
createPaste_upload(r, outcomes) ==
  /\ req[r].kind = "create" /\ req[r].pc = "upload"
  /\ \E ok \in outcomes :
       /\ storage' = IF ok THEN storage \cup {req[r].paste.storage_path} ELSE storage
       /\ LET passwordHash ==
                IF req[r].password # Undefined /\ Truthy(trim(req[r].password))
                THEN bcrypt_hash(req[r].password) ELSE Null
          IN Goto(r, [paste |-> [req[r].paste EXCEPT !.password_hash = passwordHash]],
                  "insert")
  /\ UNCHANGED <<pastes, now, usedSlugs, deleted, users>>

\* lines 69-85: insert the row (the result of the call is not looked at), 201
createPaste_insert(r, outcomes) ==
  /\ req[r].kind = "create" /\ req[r].pc = "insert"
  /\ \E ok \in outcomes :
       /\ pastes' = IF ok
                    THEN [s \in DOMAIN pastes \cup {req[r].slug} |->
                            IF s = req[r].slug THEN req[r].paste ELSE pastes[s]]
                    ELSE pastes
       /\ Respond(r, << >>, Created)
  /\ UNCHANGED <<storage, now, usedSlugs, deleted, users>>

\* ---- getPaste -------------------------------------------------------------
\* faulty variant: the view limit compared with > instead of >=
ViewLimitReached_strict(paste) ==
  paste.max_views # Null /\ paste.view_count > paste.max_views.n

\* paste.max_views !== null && paste.view_count >= paste.max_views
ViewLimitReached(paste) ==
  paste.max_views # Null /\ paste.view_count >= paste.max_views.n

\* faulty variant: the password gate placed before the limit check
getPaste_checks_passwordFirst(paste, password) ==
  IF paste = Null THEN NotFound
  ELSE IF IsExpired(paste) THEN ExpiredView
  ELSE IF paste.password_hash # Null /\ ~Truthy(password) THEN PasswordRequired
  ELSE IF paste.password_hash # Null /\ ~bcrypt_compare(password, paste.password_hash)
       THEN InvalidPassword
  ELSE IF paste.max_views # Null /\ paste.view_count >= paste.max_views.n THEN ViewLimit
  ELSE NoResponse

\* lines 102-135: the checks of getPaste on the row it read, in their order;
\* NoResponse when every check passes
getPaste_checks(paste, password) ==
  IF paste = Null THEN NotFound
  ELSE IF IsExpired(paste) THEN ExpiredView
  ELSE IF ViewLimitReached(paste) THEN ViewLimit
  ELSE IF paste.password_hash # Null /\ ~Truthy(password) THEN PasswordRequired
  ELSE IF paste.password_hash # Null /\ ~bcrypt_compare(password, paste.password_hash)
       THEN InvalidPassword
  ELSE NoResponse

\* lines 93-135: read the row, run the checks
getPaste_select(r, outcomes) ==
  /\ req[r].pc = "idle"
  /\ \E slug \in Slugs, password \in QueryPasswordIn, ok \in outcomes :
       LET paste == SelectSingle(slug, ok)
           res   == getPaste_checks(paste, password)
           in    == [kind |-> "get", slug |-> slug, password |-> password, paste |-> paste,
                     date |-> now]
       IN  IF res # NoResponse THEN Respond(r, in, res)
           ELSE /\ paste.max_views = Null => paste.view_count < MaxCount
                /\ Goto(r, in, "update")
  /\ UNCHANGED <<pastes, storage, now, usedSlugs, deleted, users>>

\* `.update(fields).eq("slug", slug)`: the table after the call
Update(slug, field, value, ok) ==
  IF ok /\ slug \in DOMAIN pastes
  THEN [pastes EXCEPT ![slug] = [k \in DOMAIN pastes[slug] |->
          IF k = field THEN value ELSE pastes[slug][k]]]
  ELSE pastes

\* `.storage.from("pastes").download(path)`: TRUE when data is a blob
Download(path, ok) == ok /\ path \in storage

\* faulty variant: the view is served without writing view_count
getPaste_update_skipped(r, outcomes) ==
  /\ req[r].kind = "get" /\ req[r].pc = "update"
  /\ \E ok \in outcomes : pastes' = pastes
  /\ Goto(r, << >>, "download")
  /\ UNCHANGED <<storage, now, usedSlugs, deleted, users>>

\* faulty variant: the row the handler read is written back with its
\* view_count raised
getPaste_update_wholeRow(r, outcomes) ==
  /\ req[r].kind = "get" /\ req[r].pc = "update"
  /\ \E ok \in outcomes :
       pastes' = IF ok /\ req[r].slug \in DOMAIN pastes
                 THEN [pastes EXCEPT ![req[r].slug] =
                         [req[r].paste EXCEPT !.view_count = @ + 1]]
                 ELSE pastes
  /\ Goto(r, << >>, "download")
  /\ UNCHANGED <<storage, now, usedSlugs, deleted, users>>

\* faulty variant: the stored view_count is incremented in place
getPaste_update_atomic(r, outcomes) ==
  /\ req[r].kind = "get" /\ req[r].pc = "update"
  /\ \E ok \in outcomes :
       pastes' = Update(req[r].slug, "view_count", pastes[req[r].slug].view_count + 1, ok)
  /\ Goto(r, << >>, "download")
  /\ UNCHANGED <<storage, now, usedSlugs, deleted, users>>

\* lines 137-141: write view_count (the result of the call is not looked at)
getPaste_update(r, outcomes) ==
  /\ req[r].kind = "get" /\ req[r].pc = "update"
  /\ \E ok \in outcomes :
       pastes' = Update(req[r].slug, "view_count", req[r].paste.view_count + 1, ok)
  /\ Goto(r, << >>, "download")
  /\ UNCHANGED <<storage, now, usedSlugs, deleted, users>>

\* faulty variant: the expiry is looked at after the blob has been read
getPaste_download_late(r, outcomes) ==
  /\ req[r].kind = "get" /\ req[r].pc = "download"
  /\ \E ok \in outcomes :
       IF ~Download(req[r].paste.storage_path, ok)
       THEN Respond(r, << >>, errorMiddleware)
       ELSE IF IsExpired(req[r].paste) THEN Respond(r, << >>, ExpiredView)
       ELSE Respond(r, << >>, SendFile)
  /\ UNCHANGED <<pastes, storage, now, usedSlugs, deleted, users>>

\* lines 143-158: read the blob and send it; blob.arrayBuffer() throws on a
\* null blob and the catch hands the error to next(err)
getPaste_download(r, outcomes) ==
  /\ req[r].kind = "get" /\ req[r].pc = "download"
  /\ \E ok \in outcomes :
       IF Download(req[r].paste.storage_path, ok)
       THEN Respond(r, << >>, SendFile)
       ELSE Respond(r, << >>, errorMiddleware)
  /\ UNCHANGED <<pastes, storage, now, usedSlugs, deleted, users>>

\* ---- downloadPaste --------------------------------------------------------
\* faulty variant: the download limit compared with > instead of >=
DownloadLimitReached_strict(paste) ==
  paste.max_downloads # Null /\ paste.download_count > paste.max_downloads.n

\* paste.max_downloads !== null && paste.download_count >= paste.max_downloads
DownloadLimitReached(paste) ==
  paste.max_downloads # Null /\ paste.download_count >= paste.max_downloads.n

\* lines 171-188: the checks of downloadPaste, in their order
downloadPaste_checks(paste) ==
  IF paste = Null THEN NotFound
  ELSE IF IsExpired(paste) THEN ExpiredDownload
  ELSE IF DownloadLimitReached(paste) THEN DownloadLimit
  ELSE NoResponse

\* lines 163-188: read the row, run the checks (req.query is not read)
downloadPaste_select(r, outcomes) ==
  /\ req[r].pc = "idle"
  /\ \E slug \in Slugs, ok \in outcomes :
       LET paste == SelectSingle(slug, ok)
           res   == downloadPaste_checks(paste)
           in    == [kind |-> "download", slug |-> slug, paste |-> paste, date |-> now]
       IN  IF res # NoResponse THEN Respond(r, in, res)
           ELSE /\ paste.max_downloads = Null => paste.download_count < MaxCount
                /\ Goto(r, in, "update")
  /\ UNCHANGED <<pastes, storage, now, usedSlugs, deleted, users>>

\* lines 190-194: write download_count (the result is not looked at)
downloadPaste_update(r, outcomes) ==
  /\ req[r].kind = "download" /\ req[r].pc = "update"
  /\ \E ok \in outcomes :
       pastes' = Update(req[r].slug, "download_count", req[r].paste.download_count + 1, ok)
  /\ Goto(r, << >>, "download")
  /\ UNCHANGED <<storage, now, usedSlugs, deleted, users>>

\* lines 196-211: read the blob and send it as an attachment
downloadPaste_download(r, outcomes) ==
  /\ req[r].kind = "download" /\ req[r].pc = "download"
  /\ \E ok \in outcomes :
       IF Download(req[r].paste.storage_path, ok)
       THEN Respond(r, << >>, SendFile)
       ELSE Respond(r, << >>, errorMiddleware)
  /\ UNCHANGED <<pastes, storage, now, usedSlugs, deleted, users>>

\* ---- previewPaste ---------------------------------------------------------
\* lines 266-268: the only check of previewPaste
previewPaste_checks(paste) ==
  IF paste = Null THEN NotFound ELSE NoResponse

\* lines 258-268: read the row; error || !paste is 404
previewPaste_select(r, outcomes) ==
  /\ req[r].pc = "idle"
  /\ \E slug \in Slugs, ok \in outcomes :
       LET paste == SelectSingle(slug, ok)
           res   == previewPaste_checks(paste)
           in    == [kind |-> "preview", slug |-> slug, paste |-> paste, date |-> now]
       IN  IF res # NoResponse THEN Respond(r, in, res)
           ELSE Goto(r, in, "download")
  /\ UNCHANGED <<pastes, storage, now, usedSlugs, deleted, users>>

\* faulty variant: the preview counted as a view
previewPaste_download_counting(r, outcomes) ==
  /\ req[r].kind = "preview" /\ req[r].pc = "download"
  /\ \E ok \in outcomes :
       /\ pastes' = Update(req[r].slug, "view_count", req[r].paste.view_count + 1, ok)
       /\ IF Download(req[r].paste.storage_path, ok)
          THEN Respond(r, << >>, PreviewJson)
          ELSE Respond(r, << >>, errorMiddleware)
  /\ UNCHANGED <<storage, now, usedSlugs, deleted, users>>

\* lines 270-297: read the blob, answer with the metadata and the base64 file
previewPaste_download(r, outcomes) ==
  /\ req[r].kind = "preview" /\ req[r].pc = "download"
  /\ \E ok \in outcomes :
       IF Download(req[r].paste.storage_path, ok)
       THEN Respond(r, << >>, PreviewJson)
       ELSE Respond(r, << >>, errorMiddleware)
  /\ UNCHANGED <<pastes, storage, now, usedSlugs, deleted, users>>

\* ---- deletePaste ----------------------------------------------------------
\* lines 302-315: fetch the paste; error || !paste is 404
\* the handler reads req.params.slug only: the user_id of the caller travels
\* with the request and is not looked at
deletePaste_select(r, outcomes) ==
  /\ req[r].pc = "idle"
  /\ \E slug \in Slugs, user_id \in CallerIds, ok \in outcomes :
       LET paste == SelectSingle(slug, ok)
           in    == [kind |-> "delete", slug |-> slug, body |-> [user_id |-> user_id],
                     paste |-> paste]
       IN  IF paste = Null THEN Respond(r, in, PasteNotFound)
           ELSE Goto(r, in, "remove")
  /\ UNCHANGED <<pastes, storage, now, usedSlugs, deleted, users>>

\* faulty variant: storageError not looked at
deletePaste_remove_unchecked(r, outcomes) ==
  /\ req[r].kind = "delete" /\ req[r].pc = "remove"
  /\ \E ok \in outcomes :
       /\ storage' = IF ok THEN storage \ {req[r].paste.storage_path} ELSE storage
       /\ Goto(r, << >>, "delete")
  /\ UNCHANGED <<pastes, now, usedSlugs, deleted, users>>

\* lines 317-326: delete from storage; a storageError ends the handler with 500
deletePaste_remove(r, outcomes) ==
  /\ req[r].kind = "delete" /\ req[r].pc = "remove"
  /\ \E ok \in outcomes :
       IF ok
       THEN /\ storage' = storage \ {req[r].paste.storage_path}
            /\ Goto(r, << >>, "delete")
       ELSE /\ storage' = storage
            /\ Respond(r, << >>, StorageFailed)
  /\ UNCHANGED <<pastes, now, usedSlugs, deleted, users>>

\* faulty variant: dbError not looked at
deletePaste_delete_unchecked(r, outcomes) ==
  /\ req[r].kind = "delete" /\ req[r].pc = "delete"
  /\ \E ok \in outcomes :
       /\ pastes' = IF ok THEN [s \in DOMAIN pastes \ {req[r].slug} |-> pastes[s]]
                    ELSE pastes
       /\ deleted' = deleted \cup {req[r].slug}
       /\ Respond(r, << >>, Deleted)
  /\ UNCHANGED <<storage, now, usedSlugs, users>>

\* lines 328-342: delete from the table; a dbError ends the handler with 500
deletePaste_delete(r, outcomes) ==
  /\ req[r].kind = "delete" /\ req[r].pc = "delete"
  /\ \E ok \in outcomes :
       IF ok
       THEN /\ pastes' = [s \in DOMAIN pastes \ {req[r].slug} |-> pastes[s]]
            /\ deleted' = deleted \cup {req[r].slug}
            /\ Respond(r, << >>, Deleted)
       ELSE /\ pastes' = pastes
            /\ deleted' = deleted
            /\ Respond(r, << >>, MetadataFailed)
  /\ UNCHANGED <<storage, now, usedSlugs, users>>

\* ---- registerUser ----------------------------------------------------------
\* user.controller.js lines 5-11: read the body; a missing field is 400
registerUser_validate(r) ==
  /\ req[r].pc = "idle"
  /\ \E user_id \in RegisterIdIn, email \in EmailIn, nickname \in NicknameIn :
       LET in == [kind |-> "register",
                  body |-> [user_id |-> user_id, email |-> email, nickname |-> nickname]]
       IN  IF ~Truthy(user_id) \/ ~Truthy(email) \/ ~Truthy(nickname)
           THEN Respond(r, in, BadRequestUser)
           ELSE Goto(r, in, "insert")
  /\ UNCHANGED <<pastes, storage, now, usedSlugs, deleted, users>>

\* `.from("users").insert(row)`: the error of the call; user_id is the key of
\* the table, a second row with the same user_id is refused with code 23505
InsertError(row, ok) ==
  IF ~ok THEN "other"
  ELSE IF \E i \in DOMAIN users : users[i].user_id = row.user_id THEN "23505"
  ELSE "none"

\* faulty variant: the table takes the row whatever it holds
registerUser_insert_blind(r, outcomes) ==
  /\ req[r].kind = "register" /\ req[r].pc = "insert"
  /\ users' = Append(users, req[r].body)
  /\ Respond(r, << >>, UserCreated)
  /\ UNCHANGED <<pastes, storage, now, usedSlugs, deleted>>

\* createUserIfNotExists (insert; 23505 is { created: false }, any other error
\* is thrown) and user.controller.js lines 19-30: 200, 201, or next(err)
registerUser_insert(r, outcomes) ==
  /\ req[r].kind = "register" /\ req[r].pc = "insert"
  /\ \E ok \in outcomes :
       LET error == InsertError(req[r].body, ok)
       IN  /\ users' = IF error = "none" THEN Append(users, req[r].body) ELSE users
           /\ IF error = "23505" THEN Respond(r, << >>, UserExists)
              ELSE IF error # "none" THEN Respond(r, << >>, errorMiddleware)
              ELSE Respond(r, << >>, UserCreated)
  /\ UNCHANGED <<pastes, storage, now, usedSlugs, deleted>>

\* ---- environment ---------------------------------------------------------
\* a minute passes
Tick ==
  /\ now < MaxTime * MsPerMinute
  /\ now' = now + MsPerMinute
  /\ UNCHANGED <<pastes, storage, usedSlugs, deleted, users, req>>

\* the response has been sent; the slot serves the next request
Finish(r) ==
  /\ req[r].pc = "done"
  /\ req' = [req EXCEPT ![r] = Idle]
  /\ UNCHANGED <<pastes, storage, now, usedSlugs, deleted, users>>

\* every store call can fail
Outcomes == BOOLEAN

Next ==
  \/ \E r \in Requests : createPaste_validate(r)
  \/ \E r \in Requests : createPaste_upload(r, Outcomes)
  \/ \E r \in Requests : createPaste_insert(r, Outcomes)
  \/ \E r \in Requests : getPaste_select(r, Outcomes)
  \/ \E r \in Requests : getPaste_update(r, Outcomes)
  \/ \E r \in Requests : getPaste_download(r, Outcomes)
  \/ \E r \in Requests : downloadPaste_select(r, Outcomes)
  \/ \E r \in Requests : downloadPaste_update(r, Outcomes)
  \/ \E r \in Requests : downloadPaste_download(r, Outcomes)
  \/ \E r \in Requests : previewPaste_select(r, Outcomes)
  \/ \E r \in Requests : previewPaste_download(r, Outcomes)
  \/ \E r \in Requests : deletePaste_select(r, Outcomes)
  \/ \E r \in Requests : deletePaste_remove(r, Outcomes)
  \/ \E r \in Requests : deletePaste_delete(r, Outcomes)
  \/ \E r \in Requests : Finish(r)
  \/ Tick

Spec == Init /\ [][Next]_vars

\* ---- sequential runs without store failures --------------------------------
\* no other handler is in flight
Alone(r) == \A q \in Requests \ {r} : req[q].pc \in {"idle", "done"}

NoFailure == {TRUE}

NextSeq ==
  \/ \E r \in Requests : Alone(r) /\ createPaste_validate(r)
  \/ \E r \in Requests : createPaste_upload(r, NoFailure)
  \/ \E r \in Requests : createPaste_insert(r, NoFailure)
  \/ \E r \in Requests : Alone(r) /\ getPaste_select(r, NoFailure)
  \/ \E r \in Requests : getPaste_update(r, NoFailure)
  \/ \E r \in Requests : getPaste_download(r, NoFailure)
  \/ \E r \in Requests : Alone(r) /\ downloadPaste_select(r, NoFailure)
  \/ \E r \in Requests : downloadPaste_update(r, NoFailure)
  \/ \E r \in Requests : downloadPaste_download(r, NoFailure)
  \/ \E r \in Requests : Alone(r) /\ previewPaste_select(r, NoFailure)
  \/ \E r \in Requests : previewPaste_download(r, NoFailure)
  \/ \E r \in Requests : Alone(r) /\ deletePaste_select(r, NoFailure)
  \/ \E r \in Requests : deletePaste_remove(r, NoFailure)
  \/ \E r \in Requests : deletePaste_delete(r, NoFailure)
  \/ \E r \in Requests : Finish(r)
  \/ Tick

SpecSeq == Init /\ [][NextSeq]_vars

\* ---- overlapping handlers on one stored paste ------------------------------
\* the row and the blob createPaste leaves behind at time 0 for a request with
\* user_id u1, file a.pdf, expires_in 1, no password and the two limits given
StoredPaste(slug, max_views, max_downloads) ==
  [user_id |-> Str("u1"), storage_path |-> StoragePath(slug, "a.pdf"),
   password_hash |-> Null, expires_at |-> MsPerMinute,
   max_views |-> Num(max_views), max_downloads |-> Num(max_downloads),
   view_count |-> 0, download_count |-> 0]

InitConc ==
  /\ \E slug \in Slugs, max_views \in 1 .. MaxConcLimit, max_downloads \in 1 .. MaxConcLimit :
       /\ pastes = [s \in {slug} |-> StoredPaste(slug, max_views, max_downloads)]
       /\ storage = {StoragePath(slug, "a.pdf")}
       /\ usedSlugs = {slug}
  /\ now = 0
  /\ deleted = {}
  /\ users = << >>
  /\ req = [r \in Handlers |-> Idle]

\* GET, download and preview requests without a password, served in any
\* interleaving of their store calls
NextConc ==
  \/ \E r \in Handlers : getPaste_select(r, NoFailure) /\ req'[r].password = Undefined
  \/ \E r \in Handlers : getPaste_update(r, NoFailure)
  \/ \E r \in Handlers : getPaste_download(r, NoFailure)
  \/ \E r \in Handlers : downloadPaste_select(r, NoFailure)
  \/ \E r \in Handlers : downloadPaste_update(r, NoFailure)
  \/ \E r \in Handlers : downloadPaste_download(r, NoFailure)
  \/ \E r \in Handlers : previewPaste_select(r, NoFailure)
  \/ \E r \in Handlers : previewPaste_download(r, NoFailure)
  \/ \E r \in Handlers : Finish(r)

SpecConc == InitConc /\ [][NextConc]_vars

\* ---- the user routes: POST /api/users in any interleaving -------------------
NextUsers ==
  \/ \E r \in Handlers : registerUser_validate(r)
  \/ \E r \in Handlers : registerUser_insert(r, NoFailure)
  \/ \E r \in Handlers : Finish(r)

SpecUsers == Init /\ [][NextUsers]_vars

\* ---- properties ------------------------------------------------------------
\* slot r starts serving a request of this kind in this step (the handler
\* reads the row and runs its checks); req'[r].paste is the data it read
Starts(r, kind) == req[r].pc = "idle" /\ req'[r].kind = kind

\* the handler answers res in this step
Answers(r, res) == req'[r].pc = "done" /\ req'[r].res = res

\* the row read by the request that starts in slot r
Read(r) == req'[r].paste

\* C1: a View, Download or Preview of a record whose expires_at is <= now is
\* answered 410 without file content, whatever the password and the counters.
C1_ExpiredAlwaysDenied ==
  \A r \in Requests :
    (/\ req[r].kind \in {"get", "download", "preview"} /\ req[r].pc = "done"
     /\ req[r].paste # Null /\ req[r].paste.expires_at <= req[r].date)
      => (req[r].res.status = 410 /\ ~req[r].res.file)

\* C2: a View or Download of a non-expired, under-limit protected paste is
\* answered PasswordRequired without a password, InvalidPassword with a wrong
\* one, and is admitted (the file is sent) only with the matching one.
C2_PasswordGate ==
  \A r \in Requests :
    (/\ req[r].kind \in {"get", "download"} /\ req[r].pc = "done"
     /\ req[r].paste # Null /\ req[r].paste.expires_at > req[r].date
     /\ req[r].paste.password_hash # Null
     /\ (req[r].kind = "get" => ~ViewLimitReached(req[r].paste))
     /\ (req[r].kind = "download" => ~DownloadLimitReached(req[r].paste)))
      => IF ~Truthy(req[r].password) THEN req[r].res = PasswordRequired
         ELSE IF ~bcrypt_compare(req[r].password, req[r].paste.password_hash)
              THEN req[r].res = InvalidPassword
         ELSE req[r].res = SendFile

\* C3: with max_views set and view_count = max_views on a non-expired record a
\* View is answered 403 (view limit) while a Preview is answered 200; a
\* Download is answered 403 when max_downloads is set and
\* download_count >= max_downloads.
C3_LimitDeniesViewNotPreview ==
  [][\A r \in Requests :
       /\ (/\ Starts(r, "get") /\ Read(r) # Null /\ ~IsExpired(Read(r))
           /\ Read(r).max_views # Null /\ Read(r).view_count = Read(r).max_views.n)
            => (Answers(r, ViewLimit) /\ ViewLimit.status = 403)
       /\ (/\ Starts(r, "download") /\ Read(r) # Null /\ ~IsExpired(Read(r))
           /\ Read(r).max_downloads # Null
           /\ Read(r).download_count >= Read(r).max_downloads.n)
            => (Answers(r, DownloadLimit) /\ DownloadLimit.status = 403)
       /\ (/\ Starts(r, "preview") /\ Read(r) # Null /\ ~IsExpired(Read(r))
           /\ Read(r).max_views # Null /\ Read(r).view_count = Read(r).max_views.n)
            => req'[r].pc = "download"
       /\ (/\ req[r].kind = "preview" /\ req[r].pc = "download" /\ req'[r].pc = "done")
            => (req'[r].res = PreviewJson /\ PreviewJson.status = 200)]_vars

\* a Preview answered 200 for a record whose views are used up
C3_Witness ==
  \E r \in Requests :
    /\ req[r].kind = "preview" /\ req[r].pc = "done" /\ req[r].res = PreviewJson
    /\ req[r].paste.max_views # Null
    /\ req[r].paste.view_count = req[r].paste.max_views.n
    /\ req[r].paste.expires_at > now

\* C4: for a paste with max_views = N (a count, N >= 0) and no password, requests served one
\* after the other before expiry: a GET that finds view_count < N is answered
\* 200 and raises view_count by exactly 1; a GET that finds view_count = N is
\* answered 403 and leaves it at N; view_count never passes N.  So the first N
\* GETs are answered 200 and all later ones 403.
C4_FirstNViews ==
  [][\A r \in Requests :
       /\ (/\ Starts(r, "get") /\ Read(r) # Null /\ ~IsExpired(Read(r))
           /\ Read(r).password_hash = Null /\ Read(r).max_views # Null
           /\ Read(r).max_views.n >= 0)
            => /\ Read(r) = pastes[req'[r].slug]
               /\ Read(r).view_count <= Read(r).max_views.n
               /\ pastes' = pastes
               /\ IF Read(r).view_count < Read(r).max_views.n
                  THEN req'[r].pc = "update"
                  ELSE Answers(r, ViewLimit)
       /\ (req[r].kind = "get" /\ req[r].pc = "update" /\ req'[r] # req[r])
            => /\ req'[r].pc = "download"
               /\ req[r].slug \in DOMAIN pastes
               /\ pastes' = [pastes EXCEPT ![req[r].slug].view_count =
                               pastes[req[r].slug].view_count + 1]
       /\ (req[r].kind = "get" /\ req[r].pc = "download" /\ req'[r] # req[r])
            => (Answers(r, SendFile) /\ pastes' = pastes /\ SendFile.status = 200)]_vars

\* the GET after the N-th is answered 403 with view_count still N
C4_Witness ==
  \E r \in Requests :
    /\ req[r].kind = "get" /\ req[r].pc = "done" /\ req[r].res = ViewLimit
    /\ req[r].paste.password_hash = Null
    /\ req[r].paste.max_views.n >= 1
    /\ req[r].slug \in DOMAIN pastes
    /\ pastes[req[r].slug].view_count = req[r].paste.max_views.n

\* C5: View and Download check record-absent, then expired, then limit, then
\* password: an absent record is 404, an expired one is 410 whatever its limit
\* and password, a non-expired one at its limit is 403 (limit) whatever the
\* password.
C5_CheckOrder ==
  [][\A r \in Requests :
       /\ (Starts(r, "get") /\ Read(r) = Null) => Answers(r, NotFound)
       /\ (Starts(r, "download") /\ Read(r) = Null) => Answers(r, NotFound)
       /\ (Starts(r, "get") /\ Read(r) # Null /\ IsExpired(Read(r)))
            => Answers(r, ExpiredView)
       /\ (Starts(r, "download") /\ Read(r) # Null /\ IsExpired(Read(r)))
            => Answers(r, ExpiredDownload)
       /\ (/\ Starts(r, "get") /\ Read(r) # Null /\ ~IsExpired(Read(r))
           /\ ViewLimitReached(Read(r)))
            => Answers(r, ViewLimit)
       /\ (/\ Starts(r, "download") /\ Read(r) # Null /\ ~IsExpired(Read(r))
           /\ DownloadLimitReached(Read(r)))
            => Answers(r, DownloadLimit)]_vars

\* a View of a protected paste at its limit, sent without the matching
\* password, is answered with the limit response
C5_Witness ==
  \E r \in Requests :
    /\ req[r].kind = "get" /\ req[r].pc = "done" /\ req[r].res = ViewLimit
    /\ req[r].paste.password_hash # Null
    /\ ~bcrypt_compare(req[r].password, req[r].paste.password_hash)

\* C6: every row of the table has its blob in the bucket at storage_path.
C6_RecordHasBlob ==
  \A s \in DOMAIN pastes : pastes[s].storage_path \in storage

\* C7: createPaste answers 201 only when the upload and the insert both
\* succeeded, and a row is inserted only when its blob was uploaded.
C7_CreateFailsOnStoreFailure ==
  [][\A r \in Requests :
       (req[r].kind = "create" /\ req[r].pc = "insert" /\ req'[r] # req[r])
         => /\ req'[r].res = Created
                 => /\ req[r].paste.storage_path \in storage'
                    /\ req[r].slug \in DOMAIN pastes'
            /\ req'[r].res # Created => req'[r].res.status = 500
            /\ req[r].slug \in DOMAIN pastes'
                 => req[r].paste.storage_path \in storage']_vars

\* C8: deletePaste removes the blob first; when that fails it answers 500 and
\* the table is untouched; a row leaves the table only in the step after its
\* blob was removed, and when that step fails the answer is 500.
C8_DeleteOrder ==
  [][/\ \A r \in Requests :
          /\ (req[r].kind = "delete" /\ req[r].pc = "remove" /\ req'[r] # req[r])
               => /\ pastes' = pastes
                  /\ \/ /\ req'[r].pc = "delete"
                        /\ req[r].paste.storage_path \notin storage'
                     \/ /\ Answers(r, StorageFailed) /\ StorageFailed.status = 500
                        /\ storage' = storage
          /\ (req[r].kind = "delete" /\ req[r].pc = "delete" /\ req'[r] # req[r])
               => /\ storage' = storage
                  /\ \/ /\ Answers(r, Deleted) /\ req[r].slug \notin DOMAIN pastes'
                     \/ /\ Answers(r, MetadataFailed) /\ MetadataFailed.status = 500
                        /\ pastes' = pastes
     /\ \A s \in DOMAIN pastes \ DOMAIN pastes' :
          /\ pastes[s].storage_path \notin storage
          /\ \E r \in Requests :
               req[r].kind = "delete" /\ req[r].pc = "delete" /\ req[r].slug = s]_vars

\* the blob delete failed: 500, and the row and the blob are still there
C8_Witness ==
  \E r \in Requests :
    /\ req[r].kind = "delete" /\ req[r].pc = "done" /\ req[r].res = StorageFailed
    /\ req[r].slug \in DOMAIN pastes
    /\ req[r].paste.storage_path \in storage

\* C9: a DELETE of a slug with no row is answered 404 and changes neither
\* store; once a DELETE of a slug was answered 200, every later GET, download,
\* preview and DELETE of that slug is answered 404.
C9_DeleteThenNotFound ==
  [][\A r \in Requests :
       /\ (Starts(r, "delete") /\ req'[r].slug \notin DOMAIN pastes)
            => /\ Answers(r, PasteNotFound) /\ PasteNotFound.status = 404
               /\ pastes' = pastes /\ storage' = storage
       /\ \A kind \in {"get", "download", "preview", "delete"} :
            (Starts(r, kind) /\ req'[r].slug \in deleted)
              => (req'[r].pc = "done" /\ req'[r].res.status = 404)]_vars

\* a GET of a slug whose DELETE was answered 200
C9_Witness ==
  \E r \in Requests :
    /\ req[r].kind = "get" /\ req[r].pc = "done" /\ req[r].slug \in deleted
    /\ req[r].res = NotFound

\* C10: no step of previewPaste changes the table, so view_count and
\* download_count of every row are what they were before the preview.
C10_PreviewKeepsCounters ==
  [][\A r \in Requests :
       (req'[r].kind = "preview" /\ req'[r] # req[r])
         => /\ DOMAIN pastes' = DOMAIN pastes
            /\ \A s \in DOMAIN pastes :
                 /\ pastes'[s].view_count = pastes[s].view_count
                 /\ pastes'[s].download_count = pastes[s].download_count]_vars

\* a Preview that was answered with the file
C10_Witness ==
  \E r \in Requests :
    /\ req[r].kind = "preview" /\ req[r].pc = "done" /\ req[r].res = PreviewJson
    /\ req[r].slug \in DOMAIN pastes

\* C11: for every paste, in any sequence or interleaving of view, download and
\* preview requests, view_count and download_count are 0 when the row is created
\* and never decrease from one state to the next.
C11_CountersNeverDecrease ==
  [][\A s \in Slugs :
       /\ (s \notin DOMAIN pastes /\ s \in DOMAIN pastes')
            => pastes'[s].view_count = 0 /\ pastes'[s].download_count = 0
       /\ (s \in DOMAIN pastes /\ s \in DOMAIN pastes')
            => /\ pastes'[s].view_count >= pastes[s].view_count
               /\ pastes'[s].download_count >= pastes[s].download_count]_vars

\* C12: createPaste answers 400 when user_id, file or expires_in is missing or
\* expires_in is not a positive number; the request ends there, and neither the
\* bucket nor the table changes.
C12_CreateRejectsInvalid ==
  [][\A r \in Requests :
       LET body == req'[r].body
           minutes == Number(body.expires_in)
       IN  (/\ Starts(r, "create")
            /\ \/ body.user_id = Undefined
               \/ body.file = "none"
               \/ body.expires_in = Undefined
               \/ isNaN(minutes)
               \/ ~isNaN(minutes) /\ minutes.n <= 0)
           => /\ req'[r].pc = "done"
              /\ req'[r].res.status = 400
              /\ storage' = storage
              /\ pastes' = pastes]_vars

\* a create with expires_in "0" has been answered 400 and nothing is stored
C12_Witness ==
  \E r \in Requests :
    /\ req[r].kind = "create" /\ req[r].pc = "done"
    /\ req[r].body.user_id # Undefined /\ req[r].body.file # "none"
    /\ req[r].body.expires_in = NumStr(0)
    /\ req[r].res = BadRequestExpiry
    /\ pastes = << >> /\ storage = {}

\* C13: every stored row has max_views and max_downloads either absent (null)
\* or a non-negative integer: a create whose max_views or max_downloads is
\* present and invalid (negative) is rejected and stores no row.
C13_LimitsValid ==
  \A s \in DOMAIN pastes :
    /\ pastes[s].max_views = Null
         \/ (pastes[s].max_views.t = "number" /\ pastes[s].max_views.n >= 0)
    /\ pastes[s].max_downloads = Null
         \/ (pastes[s].max_downloads.t = "number" /\ pastes[s].max_downloads.n >= 0)

\* C14: in getPaste and downloadPaste the blob is read only after the checks
\* have admitted the request: a denial (404, 410, 403, 401) is answered in the
\* handler's first step, after the row select and before any blob read, and
\* carries no file; the step that reads the blob belongs to a request whose
\* row was found, not expired, under its limit and (GET) opened by the password.
C14_BlobReadAfterAdmitted ==
  [][\A r \in Requests :
       /\ (/\ req'[r].kind \in {"get", "download"}
           /\ req[r].pc # "done" /\ req'[r].pc = "done"
           /\ req'[r].res.status \in {404, 410, 403, 401})
          => /\ req[r].pc = "idle"
             /\ ~req'[r].res.file
       /\ (/\ req[r].kind \in {"get", "download"}
           /\ req[r].pc = "download" /\ req'[r].pc = "done")
          => /\ req[r].paste # Null
             /\ req[r].paste.expires_at > req[r].date
             /\ req[r].kind = "get" =>
                  /\ ~ViewLimitReached(req[r].paste)
                  /\ req[r].paste.password_hash # Null =>
                       bcrypt_compare(req[r].password, req[r].paste.password_hash)
             /\ req[r].kind = "download" => ~DownloadLimitReached(req[r].paste)]_vars

\* a download has been denied for the limit while the blob is in the bucket
C14_Witness ==
  \E r \in Requests :
    /\ req[r].kind = "download" /\ req[r].pc = "done"
    /\ req[r].res = DownloadLimit
    /\ req[r].paste.storage_path \in storage

\* C15: for a paste with a password that is not expired and under its view
\* limit, GET /:slug answers 401 without a password query, 403 with a password
\* that does not match and 200 with the file for the matching one; view_count
\* goes up by one in the 200 case and the 401 and 403 answers leave the table
\* as it was.
C15_ProtectedGet ==
  [][\A r \in Requests :
       /\ (/\ Starts(r, "get")
           /\ Read(r) # Null
           /\ ~IsExpired(Read(r)) /\ ~ViewLimitReached(Read(r))
           /\ Read(r).password_hash # Null)
          => LET password == req'[r].password
             IN  /\ password = Undefined => Answers(r, PasswordRequired) /\ pastes' = pastes
                 /\ (password \notin {Undefined, Str("")}
                       /\ bcrypt_hash(password) # Read(r).password_hash)
                      => Answers(r, InvalidPassword) /\ pastes' = pastes
                 /\ bcrypt_hash(password) = Read(r).password_hash
                      => req'[r].pc = "update" /\ pastes' = pastes
       /\ (req[r].kind = "get" /\ req[r].pc = "update" /\ req'[r].pc # "update")
          => /\ req'[r].pc = "download"
             /\ pastes'[req[r].slug].view_count = pastes[req[r].slug].view_count + 1
       /\ (req[r].kind = "get" /\ req[r].pc = "download" /\ req'[r].pc # "download")
          => Answers(r, SendFile) /\ pastes' = pastes]_vars

\* a GET with the matching password has been served and counted
C15_Witness ==
  \E r \in Requests :
    /\ req[r].kind = "get" /\ req[r].pc = "done"
    /\ req[r].paste # Null
    /\ req[r].paste.password_hash = bcrypt_hash(Str("secret"))
    /\ req[r].password = Str("secret")
    /\ req[r].res = SendFile
    /\ pastes[req[r].slug].view_count = req[r].paste.view_count + 1

\* C16: view_count goes up only on a successful access: when a GET /:slug has
\* been answered with anything but the 200 that carries the file (a failed blob
\* read after all checks included), view_count is what the handler read.
C16_CountOnlyOnSuccess ==
  \A r \in Requests :
    (/\ req[r].kind = "get" /\ req[r].pc = "done"
     /\ req[r].res # SendFile
     /\ req[r].paste # Null
     /\ req[r].slug \in DOMAIN pastes)
    => pastes[req[r].slug].view_count = req[r].paste.view_count

\* C17: a paste is deleted only by the user who uploaded it: a DELETE whose
\* caller is not the user_id of the row removes neither the blob nor the row.
C17_OnlyOwnerDeletes ==
  [][\A r \in Requests :
       (/\ req[r].kind = "delete" /\ req[r].pc \in {"remove", "delete"}
        /\ req'[r].pc # req[r].pc
        /\ storage' # storage \/ DOMAIN pastes' # DOMAIN pastes)
       => req[r].body.user_id = req[r].paste.user_id]_vars

\* C18: registerUser registers a user only if absent. In any interleaving of
\* POST /api/users calls with all fields present, the call whose insert finds no
\* row with its user_id is answered 201 and adds that row, every call that finds
\* one is answered 200 and adds nothing; rows are never removed and no user_id
\* has two rows, so exactly one call per user_id gets the 201. A call without
\* user_id, email or nickname is answered 400 and inserts nothing.
C18_RegisterOnce ==
  [][\A r \in Handlers :
       LET body == req'[r].body
           rows(table, id) == {i \in DOMAIN table : table[i].user_id = id}
       IN  /\ (Starts(r, "register")
                 /\ Undefined \in {body.user_id, body.email, body.nickname})
              => Answers(r, BadRequestUser) /\ users' = users
           /\ (Starts(r, "register")
                 /\ Undefined \notin {body.user_id, body.email, body.nickname})
              => req'[r].pc = "insert" /\ users' = users
           /\ (req[r].kind = "register" /\ req[r].pc = "insert" /\ req'[r].pc # "insert")
              => IF rows(users, body.user_id) = {}
                 THEN Answers(r, UserCreated) /\ users' = Append(users, body)
                 ELSE Answers(r, UserExists) /\ users' = users
           /\ \A id \in RegisterIdIn :
                /\ rows(users, id) \subseteq rows(users', id)
                /\ Cardinality(rows(users', id)) <= 1]_vars

\* two calls with the same user_id have overlapped: one got 201, the other 200,
\* and the table has one row
C18_Witness ==
  /\ req[1].kind = "register" /\ req[2].kind = "register"
  /\ req[1].body.user_id = req[2].body.user_id
  /\ req[1].res = UserCreated /\ req[2].res = UserExists
  /\ Len(users) = 1

\* C19: once view_count has reached max_views every later view is denied, in
\* all interleavings of view requests: the limit condition of a row, once
\* true, stays true as long as the row exists, so no request that reads the row
\* afterwards passes the limit check.
C19_LimitStaysReached ==
  [][\A s \in DOMAIN pastes \cap DOMAIN pastes' :
       ViewLimitReached(pastes[s]) => ViewLimitReached(pastes'[s])]_vars

\* C20: the counters are updated by an unsynchronised read-modify-write: the
\* update of a view writes the view_count its handler read plus one, whatever
\* the row holds by then, and the update of a download does the same with
\* download_count; two overlapping admitted views that both read N therefore
\* leave N + 1.
C20_ReadModifyWrite ==
  [][\A r \in Handlers :
       /\ (req[r].kind = "get" /\ req[r].pc = "update" /\ req'[r].pc = "download")
          => pastes'[req[r].slug].view_count = req[r].paste.view_count + 1
       /\ (req[r].kind = "download" /\ req[r].pc = "update" /\ req'[r].pc = "download")
          => pastes'[req[r].slug].download_count = req[r].paste.download_count + 1]_vars

\* two overlapping views have both been served with the file, both had read
\* the same view_count, and the row counts one view
C20_Witness ==
  /\ req[1].kind = "get" /\ req[2].kind = "get"
  /\ req[1].res = SendFile /\ req[2].res = SendFile
  /\ req[1].slug = req[2].slug
  /\ req[1].paste.view_count = req[2].paste.view_count
  /\ pastes[req[1].slug].view_count = req[1].paste.view_count + 1

\* C21: an admitted View writes view_count = the value it read + 1 and leaves
\* download_count and every other field of the stored row as they are; an
\* admitted Download writes download_count = the value it read + 1 and leaves
\* view_count and every other field as they are; a View or Download that is
\* denied (404, 410, 403, 401) writes nothing, and neither does any other step
\* of the two handlers.
C21_FrameOfCounters ==
  [][\A r \in Handlers :
       (req[r].kind \in {"idle", "get", "download"}
          /\ req'[r].kind \in {"get", "download"} /\ req'[r] # req[r])
       => IF req[r].pc = "update" /\ req'[r].kind = "get"
          THEN pastes' = [pastes EXCEPT ![req[r].slug].view_count =
                            req[r].paste.view_count + 1]
          ELSE IF req[r].pc = "update" /\ req'[r].kind = "download"
          THEN pastes' = [pastes EXCEPT ![req[r].slug].download_count =
                            req[r].paste.download_count + 1]
          ELSE pastes' = pastes]_vars

\* a view has been counted after an overlapping download was: the row has the
\* view_count the view wrote and the download_count the download wrote
C21_Witness ==
  \E r \in Handlers, q \in Handlers :
    /\ req[r].kind = "get" /\ req[r].pc \in {"download", "done"}
    /\ req[r].res # ViewLimit
    /\ req[q].kind = "download" /\ req[q].res = SendFile
    /\ req[r].paste.download_count = 0
    /\ pastes[req[r].slug].download_count = 1
    /\ pastes[req[r].slug].view_count = req[r].paste.view_count + 1

\* C22: for a paste with a non-negative max_views (max_downloads), the stored
\* view_count (download_count) is never above that cap, in any interleaving of
\* view and download requests, even when more requests than the cap have been
\* admitted.
C22_CountWithinCap ==
  \A s \in DOMAIN pastes :
    /\ (pastes[s].max_views # Null /\ pastes[s].max_views.n >= 0)
         => pastes[s].view_count <= pastes[s].max_views.n
    /\ (pastes[s].max_downloads # Null /\ pastes[s].max_downloads.n >= 0)
         => pastes[s].download_count <= pastes[s].max_downloads.n

\* two overlapping downloads of a paste with max_downloads 1 have both been
\* served and download_count is 1
C22_Witness ==
  /\ req[1].kind = "download" /\ req[2].kind = "download"
  /\ req[1].res = SendFile /\ req[2].res = SendFile
  /\ req[1].slug = req[2].slug
  /\ pastes[req[1].slug].max_downloads = Num(1)
  /\ pastes[req[1].slug].download_count = 1

====
